---------------------------- MODULE Spec2Model ----------------------------
(***************************************************************************)
(* A model of PatternDetector (src/src/lib/PatternDetector.cpp): train,    *)
(* the per-pattern matching jobs that findPattern runs in parallel, the    *)
(* selection of the best pattern and the refinement stage.                 *)
(*                                                                         *)
(* Vectors are sequences; the code's indices are 0-based, so element i of  *)
(* a vector v is v[i + 1].  Images are given by the features the detector  *)
(* and extractor find in them; descriptors are bit strings (naturals)      *)
(* compared by Hamming distance; homographies are 3x3 integer matrices.    *)
(***************************************************************************)
EXTENDS Integers, Sequences, FiniteSets, TLC

(***************************************************************************)
(* Bounds of the model and constants of the program.                       *)
(***************************************************************************)
MaxOps == 3

minNumberMatchesAllowed == 25
homographyReprojectionThreshold == 3
DescriptorBits == 5

(***************************************************************************)
(* cv::Mat homographies.                                                   *)
(***************************************************************************)
EmptyMat == << >>

Eye3 == << <<1, 0, 0>>, <<0, 1, 0>>, <<0, 0, 1>> >>

Translate(tx, ty) == << <<1, 0, tx>>, <<0, 1, ty>>, <<0, 0, 1>> >>

ScaleX(s) == << <<s, 0, 0>>, <<0, 1, 0>>, <<0, 0, 1>> >>

\* cv::Mat::empty()
IsEmptyMat(m) == m = EmptyMat

\* A * B evaluated into a cv::Mat (gemm) raises a cv::Exception when the
\* inner dimensions do not agree, as with an empty operand.
GemmThrows(A, B) == IsEmptyMat(A) \/ IsEmptyMat(B)

MatMulSwapped(A, B) ==
  [i \in 1..3 |-> [j \in 1..3 |->
     B[i][1] * A[1][j] + B[i][2] * A[2][j] + B[i][3] * A[3][j]]]

MatMul(A, B) ==
  [i \in 1..3 |-> [j \in 1..3 |->
     A[i][1] * B[1][j] + A[i][2] * B[2][j] + A[i][3] * B[3][j]]]

\* One point through a 3x3 transform, as cv::perspectiveTransform does it:
\* the homogeneous coordinate w divides, and a zero w gives (0, 0).
TransformPoint(H, p) ==
  LET x == H[1][1] * p[1] + H[1][2] * p[2] + H[1][3]
      y == H[2][1] * p[1] + H[2][2] * p[2] + H[2][3]
      w == H[3][1] * p[1] + H[3][2] * p[2] + H[3][3]
  IN  IF w = 0 THEN <<0, 0>> ELSE <<x \div w, y \div w>>

PerspectiveTransform(pts, H) ==
  [k \in 1..Len(pts) |-> TransformPoint(H, pts[k])]

(***************************************************************************)
(* Descriptors and the brute-force Hamming matcher (cv::BFMatcher).        *)
(***************************************************************************)
RECURSIVE BitDiff(_, _, _)
BitDiff(a, b, n) ==
  IF n = 0 THEN 0
  ELSE (IF a % 2 = b % 2 THEN 0 ELSE 1) + BitDiff(a \div 2, b \div 2, n - 1)

\* cv::NORM_HAMMING
Hamming(a, b) == BitDiff(a, b, DescriptorBits)

DMatch(q, t, d) == [queryIdx |-> q, trainIdx |-> t, distance |-> d]

RECURSIVE Flatten(_)
Flatten(ss) == IF ss = << >> THEN << >> ELSE Head(ss) \o Flatten(Tail(ss))

\* The descriptors a matcher indexes: its train descriptor collection.
TrainDescriptors(matcher) == Flatten(matcher)

\* The distance of descriptor d to each train descriptor.
Distances(train, d) == [j1 \in 1..Len(train) |-> Hamming(d, train[j1])]

\* The train index nearest to a query descriptor among j..n-1 without
\* excl, or best when that one is at least as near, from the distances
\* dist: smallest distance, the lower index on equal distances (-1: none).
RECURSIVE NearestFrom(_, _, _, _)
NearestFrom(dist, excl, j, best) ==
  IF j >= Len(dist) THEN best
  ELSE NearestFrom(dist, excl, j + 1,
         IF j # excl /\ (best = -1 \/ dist[j + 1] < dist[best + 1]) THEN j ELSE best)

Nearest(dist, excl) == NearestFrom(dist, excl, 0, -1)

\* matcher->knnMatch(queryDescriptors, knnMatches, 2): for each query
\* descriptor its nearest train descriptors, nearest first, 2 of them or
\* as many as the matcher holds when it holds fewer.
KnnMatch2(matcher, queryDescriptors) ==
  LET train == TrainDescriptors(matcher)
      One(q) ==
        LET dist == Distances(train, queryDescriptors[q + 1])
        IN  IF Len(train) = 0 THEN << >>
            ELSE LET j1 == Nearest(dist, -1)
                     m1 == DMatch(q, j1, dist[j1 + 1])
                 IN  IF Len(train) = 1 THEN <<m1>>
                     ELSE LET j2 == Nearest(dist, j1)
                          IN  <<m1, DMatch(q, j2, dist[j2 + 1])>>
  IN  [q1 \in 1..Len(queryDescriptors) |-> One(q1 - 1)]

\* matcher->match(queryDescriptors, matches): the nearest train descriptor
\* of each query descriptor; a query descriptor with no neighbour gives none.
Match(matcher, queryDescriptors) ==
  LET train == TrainDescriptors(matcher)
  IN  IF Len(train) = 0 THEN << >>
      ELSE [q1 \in 1..Len(queryDescriptors) |->
              LET dist == Distances(train, queryDescriptors[q1])
                  j1 == Nearest(dist, -1)
              IN  DMatch(q1 - 1, j1, dist[j1 + 1])]

\* The float division bestMatch.distance / betterMatch.distance of two
\* distances, which are never negative: 0/0 is NaN, x/0 is +inf, and any
\* other quotient is the finite num / den.
DistanceRatio(best, better) ==
  [nan |-> best = 0 /\ better = 0,
   inf |-> best # 0 /\ better = 0,
   num |-> best,
   den |-> better]

IsFinite(ratio) == ~ratio.nan /\ ~ratio.inf

\* distanceRatio < minRatio with minRatio = 1.f / 1.5f: false for NaN and
\* for +inf.
DistanceRatioBelowMinRatio(best, better) ==
  LET distanceRatio == DistanceRatio(best, better)
  IN  /\ IsFinite(distanceRatio)
      /\ 3 * distanceRatio.num < 2 * distanceRatio.den


(***************************************************************************)
(* Images.  An image is given by what the feature detector finds in it     *)
(* (detected) and what is left once the extractor has computed the         *)
(* descriptors (computed; the extractor may drop keypoints).  A feature is *)
(* a keypoint location and its descriptor.                                 *)
(***************************************************************************)
Feature(x, y, d) == [pt |-> <<x, y>>, desc |-> d]

Image(cols, rows, detected, computed) ==
  [cols |-> cols, rows |-> rows, detected |-> detected, computed |-> computed]

Pts(features) == [k \in 1..Len(features) |-> features[k].pt]

Descs(features) == [k \in 1..Len(features) |-> features[k].desc]

\* extractFeatures(image, keypoints, descriptors): detect, return false on
\* no keypoints (the descriptors are then left as they were), compute,
\* return false when no keypoint is left.
ExtractFeatures(image, keypoints, descriptors) ==
  IF image.detected = << >>
  THEN [ret |-> FALSE, keypoints |-> << >>, descriptors |-> descriptors]
  ELSE [ret |-> image.computed # << >>,
        keypoints |-> Pts(image.computed),
        descriptors |-> Descs(image.computed)]

\* buildPatternsFromImages, one image: the size, the 4 corners in the order
\* top-left, top-right, bottom-right, bottom-left, and the features.
BuildPattern(image) ==
  LET w == image.cols
      h == image.rows
      f == ExtractFeatures(image, << >>, << >>)
  IN  [size |-> <<w, h>>,
       points2d |-> << <<0, 0>>, <<w, 0>>, <<w, h>>, <<0, h>> >>,
       keypoints |-> f.keypoints,
       descriptors |-> f.descriptors]

\* cv::warpPerspective(image, warped, H, size, WARP_INVERSE_MAP): pixel p
\* of the output shows the input at H p, so a feature of the input at q is
\* seen at the p of the output with H p = q, when there is one.
RECURSIVE WarpFeatures(_, _, _)
WarpFeatures(features, H, size) ==
  IF features = << >> THEN << >>
  ELSE LET f == Head(features)
           pre == {p \in (0 .. size[1] - 1) \X (0 .. size[2] - 1) :
                     TransformPoint(H, p) = f.pt}
           rest == WarpFeatures(Tail(features), H, size)
       IN  IF pre = {} THEN rest
           ELSE LET p == CHOOSE p0 \in pre : TRUE
                IN  <<Feature(p[1], p[2], f.desc)>> \o rest

WarpPerspective(image, H, size) ==
  LET fs == WarpFeatures(image.computed, H, size)
  IN  Image(size[1], size[2], fs, fs)

(***************************************************************************)
(* cv::findHomography with RANSAC: a deterministic robust fit over a fixed *)
(* family of transforms.  The fit with the most inliers wins, then the     *)
(* smallest squared error, then the first of the family; with fewer than 4 *)
(* inliers there is no transform and the mask is all zero.                 *)
(***************************************************************************)
Candidates == <<Eye3, Translate(1, 0), Translate(8, 0), ScaleX(2)>>

Err2(H, s, d) ==
  LET t == TransformPoint(H, s)
  IN  (t[1] - d[1]) * (t[1] - d[1]) + (t[2] - d[2]) * (t[2] - d[2])

IsInlier(H, s, d, thr) == Err2(H, s, d) <= thr * thr

InlierCount(H, src, dst, thr) ==
  Cardinality({k \in 1..Len(src) : IsInlier(H, src[k], dst[k], thr)})

RECURSIVE InlierError(_, _, _, _, _)
InlierError(H, src, dst, thr, k) ==
  IF k = 0 THEN 0
  ELSE (IF IsInlier(H, src[k], dst[k], thr) THEN Err2(H, src[k], dst[k]) ELSE 0)
       + InlierError(H, src, dst, thr, k - 1)

FindHomography(srcPoints, dstPoints, thr) ==
  LET n == Len(srcPoints)
      cnt == [c \in 1..Len(Candidates) |->
                InlierCount(Candidates[c], srcPoints, dstPoints, thr)]
      err == [c \in 1..Len(Candidates) |->
                InlierError(Candidates[c], srcPoints, dstPoints, thr, n)]
      best == CHOOSE c \in 1..Len(Candidates) :
                \A c2 \in 1..Len(Candidates) :
                  \/ cnt[c] > cnt[c2]
                  \/ cnt[c] = cnt[c2] /\ err[c] < err[c2]
                  \/ cnt[c] = cnt[c2] /\ err[c] = err[c2] /\ c <= c2
  IN  IF cnt[best] < 4
      THEN [homography |-> EmptyMat, mask |-> [k \in 1..n |-> FALSE]]
      ELSE [homography |-> Candidates[best],
            mask |-> [k \in 1..n |->
                        IsInlier(Candidates[best], srcPoints[k], dstPoints[k], thr)]]

\* What the estimator can hand back when it was fed points read past the
\* end of a keypoint vector: the points may fit a transform or fit none.
GarbageEstimates(n) ==
  { [homography |-> EmptyMat, mask |-> [k \in 1..n |-> FALSE]],
    [homography |-> Translate(8, 0), mask |-> [k \in 1..n |-> TRUE]] }

\* The estimator was not run.
NoEstimate == [homography |-> EmptyMat, mask |-> << >>]

(***************************************************************************)
(* refineMatchesWithHomography                                             *)
(***************************************************************************)
\* Line 330: too few matches to estimate from.
TooFewMatchesUpTo(matches) == Len(matches) <= minNumberMatchesAllowed

TooFewMatches(matches) == Len(matches) < minNumberMatchesAllowed

\* Line 331: false is returned and both arguments are left alone.
ReturnEarlyCleared(matches, homography) ==
  [crash |-> FALSE, ret |-> FALSE, matches |-> << >>, homography |-> homography,
   ran |-> FALSE, estimate |-> NoEstimate]

ReturnEarly(matches, homography) ==
  [crash |-> FALSE, ret |-> FALSE, matches |-> matches, homography |-> homography,
   ran |-> FALSE, estimate |-> NoEstimate]

\* Lines 352-356: the matches whose mask entry is set, from entry i on.
RECURSIVE MaskedMatchesReversed(_, _, _)
MaskedMatchesReversed(matches, mask, i) ==
  IF i > Len(mask) THEN << >>
  ELSE MaskedMatchesReversed(matches, mask, i + 1)
       \o (IF mask[i] THEN <<matches[i]>> ELSE << >>)

RECURSIVE MaskedMatches(_, _, _)
MaskedMatches(matches, mask, i) ==
  IF i > Len(mask) THEN << >>
  ELSE (IF mask[i] THEN <<matches[i]>> ELSE << >>)
       \o MaskedMatches(matches, mask, i + 1)

\* Lines 347-359: the identity for an empty transform, the inliers swapped
\* into the match list, success on more than minNumberMatchesAllowed.
RefineWithEstimateAtLeast(matches, est) ==
  LET inliers == MaskedMatches(matches, est.mask, 1)
  IN  [crash |-> FALSE,
       ret |-> Len(inliers) >= minNumberMatchesAllowed,
       matches |-> inliers,
       homography |-> IF IsEmptyMat(est.homography) THEN Eye3 ELSE est.homography,
       ran |-> TRUE, estimate |-> est]

RefineWithEstimateKeepingEmpty(matches, est) ==
  LET inliers == MaskedMatches(matches, est.mask, 1)
  IN  [crash |-> FALSE,
       ret |-> Len(inliers) > minNumberMatchesAllowed,
       matches |-> inliers,
       homography |-> est.homography,
       ran |-> TRUE, estimate |-> est]

RefineWithEstimate(matches, est) ==
  LET inliers == MaskedMatches(matches, est.mask, 1)
  IN  [crash |-> FALSE,
       ret |-> Len(inliers) > minNumberMatchesAllowed,
       matches |-> inliers,
       homography |-> IF IsEmptyMat(est.homography) THEN Eye3 ELSE est.homography,
       ran |-> TRUE, estimate |-> est]

\* Lines 337-340 index both keypoint vectors with the matches' indices.
IndexOutOfRange(queryKeypoints, trainKeypoints, matches) ==
  \E k \in 1..Len(matches) :
    \/ matches[k].trainIdx >= Len(trainKeypoints)
    \/ matches[k].queryIdx >= Len(queryKeypoints)

Crashed ==
  [crash |-> TRUE, ret |-> FALSE, matches |-> << >>, homography |-> EmptyMat,
   ran |-> FALSE, estimate |-> NoEstimate]

\* refineMatchesWithHomography was not called.
NoValidation ==
  [crash |-> FALSE, ret |-> FALSE, matches |-> << >>, homography |-> EmptyMat,
   ran |-> FALSE, estimate |-> NoEstimate]

\* The outcomes of refineMatchesWithHomography(queryKeypoints,
\* trainKeypoints, thr, matches, homography): the value returned and the two
\* arguments it writes.  There is one outcome unless a keypoint vector is
\* indexed past its end: then the call crashes or goes on with points it
\* never was given.
RefineMatchesWithHomography(queryKeypoints, trainKeypoints, thr, matches, homography) ==
  IF TooFewMatches(matches)
  THEN {ReturnEarly(matches, homography)}
  ELSE IF IndexOutOfRange(queryKeypoints, trainKeypoints, matches)
  THEN {Crashed} \cup {RefineWithEstimate(matches, e) : e \in GarbageEstimates(Len(matches))}
  ELSE LET src == [k \in 1..Len(matches) |-> trainKeypoints[matches[k].trainIdx + 1]]
           dst == [k \in 1..Len(matches) |-> queryKeypoints[matches[k].queryIdx + 1]]
       IN  {RefineWithEstimate(matches, FindHomography(src, dst, thr))}

(***************************************************************************)
(* getMatches; lines 127-153 of findPatternMatch are the same code.        *)
(***************************************************************************)
\* What a read past the end of a neighbour list can give.
GarbageMatches == {DMatch(0, 0, 0), DMatch(0, 0, 200)}

RECURSIVE RatioFilter(_, _, _, _)
RatioFilter(knnMatches, g0, g1, i) ==
  IF i > Len(knnMatches) THEN << >>
  ELSE LET bestMatch == IF Len(knnMatches[i]) >= 1 THEN knnMatches[i][1] ELSE g0
           betterMatch == IF Len(knnMatches[i]) >= 2 THEN knnMatches[i][2] ELSE g1
       IN  (IF DistanceRatioBelowMinRatio(bestMatch.distance, betterMatch.distance)
            THEN <<bestMatch>> ELSE << >>)
           \o RatioFilter(knnMatches, g0, g1, i + 1)

\* Some neighbour list is read at [0] or [1] without having that element.
KnnReadPastEnd(knnMatches) ==
  \E i \in 1..Len(knnMatches) : Len(knnMatches[i]) < 2

\* Some distance ratio computed at line 309 is NaN or infinite.
RatioNotFinite(knnMatches, g0, g1) ==
  \E i \in 1..Len(knnMatches) :
    LET bestMatch == IF Len(knnMatches[i]) >= 1 THEN knnMatches[i][1] ELSE g0
        betterMatch == IF Len(knnMatches[i]) >= 2 THEN knnMatches[i][2] ELSE g1
    IN  ~IsFinite(DistanceRatio(bestMatch.distance, betterMatch.distance))

\* No matching was done.
NoMatching == [crash |-> FALSE, matches |-> << >>, pastEnd |-> FALSE, nonFinite |-> FALSE]

\* The outcomes of getMatches(queryDescriptors, matches, patternIdx) on the
\* given matcher: the match list written, or a crash; and whether a
\* neighbour list was read past its end and whether a ratio was not finite.
GetMatches(matcher, queryDescriptors, ratioTest) ==
  IF ratioTest
  THEN LET knnMatches == KnnMatch2(matcher, queryDescriptors)
       IN  IF KnnReadPastEnd(knnMatches)
           THEN {[crash |-> TRUE, matches |-> << >>, pastEnd |-> TRUE,
                  nonFinite |-> FALSE]}
                \cup {[crash |-> FALSE,
                       matches |-> RatioFilter(knnMatches, g0, g1, 1),
                       pastEnd |-> TRUE,
                       nonFinite |-> RatioNotFinite(knnMatches, g0, g1)] :
                        g0 \in GarbageMatches, g1 \in GarbageMatches}
           ELSE {[crash |-> FALSE,
                  matches |-> RatioFilter(knnMatches, DMatch(0, 0, 0), DMatch(0, 0, 0), 1),
                  pastEnd |-> FALSE,
                  nonFinite |-> RatioNotFinite(knnMatches, DMatch(0, 0, 0),
                                               DMatch(0, 0, 0))]}
  ELSE {[crash |-> FALSE, matches |-> Match(matcher, queryDescriptors),
         pastEnd |-> FALSE, nonFinite |-> FALSE]}


(***************************************************************************)
(* The inputs: the images patterns are built from, the pattern lists       *)
(* train is called with and the frames findPattern is called with.         *)
(***************************************************************************)
\* Feature i of the reference object.
ObjectFeature(i) == Feature(i, i % 2, i)

ObjectImage(n) ==
  LET fs == [i \in 1..n |-> ObjectFeature(i)]
  IN  Image(30, 2, fs, fs)

BlankImage == Image(30, 2, << >>, << >>)

Pattern27 == BuildPattern(ObjectImage(27))

Pattern26 == BuildPattern(ObjectImage(26))

PatternNoKeypoints == BuildPattern(BlankImage)

PatternOneKeypoint == BuildPattern(ObjectImage(1))

\* Two keypoints with the same descriptor, that of feature 1.
PatternTwins ==
  LET fs == <<Feature(1, 1, 1), Feature(2, 0, 1)>>
  IN  BuildPattern(Image(30, 2, fs, fs))

TrainArgs ==
  { <<Pattern26, Pattern27>>, <<PatternNoKeypoints, Pattern27>>, <<Pattern27>>,
    <<PatternOneKeypoint, PatternTwins>> }

\* The object as it is, with its first n features in view.
FrameObject(n) ==
  LET fs == [i \in 1..n |-> ObjectFeature(i)]
  IN  Image(60, 4, fs, fs)

\* The object shifted right by 1 and stretched by 2 along x.
FrameStretched ==
  LET fs == [i \in 1..27 |-> Feature(2 * (i + 1), i % 2, i)]
  IN  Image(60, 4, fs, fs)

\* The object with its last k features seen 2 rows lower: still within the
\* reprojection threshold, but outside the pattern's size once warped.
FrameLowered(k) ==
  LET fs == [i \in 1..27 |->
               IF i > 27 - k THEN Feature(i, (i % 2) + 2, i) ELSE ObjectFeature(i)]
  IN  Image(60, 4, fs, fs)

\* The features of the object, laid out from right to left: no transform
\* the estimator knows fits 4 of them.
FrameMirrored ==
  LET fs == [i \in 1..27 |-> Feature(58 - i, i % 2, i)]
  IN  Image(60, 4, fs, fs)

\* No keypoint detected.
FrameBlank == Image(60, 4, << >>, << >>)

\* One keypoint detected, dropped by the extractor.
FrameBorder == Image(60, 4, <<Feature(0, 0, 1)>>, << >>)

Frames ==
  { FrameObject(27), FrameObject(26), FrameStretched, FrameLowered(2),
    FrameLowered(3), FrameMirrored, FrameBlank, FrameBorder }

(***************************************************************************)
(* The state: the PatternDetector instance, the caller's info, and the     *)
(* position of the call in progress and of its jobs.                       *)
(***************************************************************************)
VARIABLES
  m_patterns, m_matchers,
  enableRatioTest, enableHomographyRefinement,
  m_grayImg, m_queryKeypoints, m_queryDescriptors,
  m_matches, m_matches_homography, m_matches_homographyFound,
  m_roughHomography, m_refinedHomography, m_pattern,
  info,
  pc, job, ret, maxFoundIdx, refinedMatches, refinement,
  patternsArg, leftoverReads,
  calls, trains

vars ==
  << m_patterns, m_matchers, enableRatioTest, enableHomographyRefinement,
     m_grayImg, m_queryKeypoints, m_queryDescriptors,
     m_matches, m_matches_homography, m_matches_homographyFound,
     m_roughHomography, m_refinedHomography, m_pattern,
     info, pc, job, ret, maxFoundIdx, refinedMatches, refinement, patternsArg,
     leftoverReads, calls, trains >>

config == << enableRatioTest, enableHomographyRefinement >>

store == << m_patterns, m_matchers >>

query == << m_grayImg, m_queryKeypoints, m_queryDescriptors >>

slots == << m_matches, m_matches_homography, m_matches_homographyFound >>

winner == << m_roughHomography, m_refinedHomography, m_pattern >>

NoPattern ==
  [size |-> <<0, 0>>, points2d |-> << >>, keypoints |-> << >>, descriptors |-> << >>]

NoInfo == [patternIdx |-> -1, homography |-> EmptyMat, points2d |-> << >>]

\* Lines 230-235 were not reached: the refinement stage has matched and
\* validated nothing.
NoRefinement == [called |-> FALSE, matching |-> NoMatching, validation |-> NoValidation]

\* The instance as the constructor leaves it, and a caller's fresh info.
Init ==
  /\ m_patterns = << >>
  /\ m_matchers = << >>
  /\ enableRatioTest \in BOOLEAN
  /\ enableHomographyRefinement = TRUE
  /\ m_grayImg = BlankImage
  /\ m_queryKeypoints = << >>
  /\ m_queryDescriptors = << >>
  /\ m_matches = << >>
  /\ m_matches_homography = << >>
  /\ m_matches_homographyFound = << >>
  /\ m_roughHomography = EmptyMat
  /\ m_refinedHomography = EmptyMat
  /\ m_pattern = NoPattern
  /\ info = NoInfo
  /\ pc = "idle"
  /\ job = << >>
  /\ ret = "none"
  /\ maxFoundIdx = -1
  /\ refinedMatches = << >>
  /\ refinement = NoRefinement
  /\ patternsArg = << >>
  /\ leftoverReads = {}
  /\ calls = 0
  /\ trains = 0

(***************************************************************************)
(* train                                                                   *)
(***************************************************************************)
\* One matcher per pattern: a new BFMatcher, cleared, with the pattern's
\* descriptors as its only train descriptor set.
TrainedMatchersKeeping(patterns, old) ==
  [i \in 1..Len(patterns) |->
     (IF i <= Len(old) THEN old[i] ELSE << >>) \o <<patterns[i].descriptors>>]

TrainedMatchers(patterns, old) ==
  [i \in 1..Len(patterns) |-> <<patterns[i].descriptors>>]

Train(patterns) ==
  /\ pc = "idle"
  /\ calls + trains < MaxOps
  /\ patternsArg' = patterns
  /\ m_patterns' = patterns
  /\ m_matchers' = TrainedMatchers(patterns, m_matchers)
  /\ trains' = trains + 1
  /\ ret' = "none"
  /\ UNCHANGED << config, query, slots, winner, info, pc, job, maxFoundIdx,
                  refinedMatches, refinement, leftoverReads, calls >>

\* The caller sets the public field enableHomographyRefinement.
SetHomographyRefinement(b) ==
  /\ pc = "idle"
  /\ b # enableHomographyRefinement
  /\ enableHomographyRefinement' = b
  /\ ret' = "none"
  /\ UNCHANGED << m_patterns, m_matchers, enableRatioTest, query, slots, winner,
                  info, pc, job, maxFoundIdx, refinedMatches, refinement,
                  patternsArg, leftoverReads, calls, trains >>

(***************************************************************************)
(* findPattern, up to the parallel region (lines 168-182).                 *)
(***************************************************************************)
NewJob ==
  [pc |-> "match", homographyFoundinPattern |-> FALSE, word |-> << >>,
   matching |-> NoMatching, validation |-> NoValidation]

\* Line 182 hands m_queryDescriptors to the jobs.  The call has written
\* them unless the detector found no keypoint (line 277); then they are
\* what an earlier call left, if any has written some.
DescriptorsLeftOver(image, descriptors) ==
  image.detected = << >> /\ descriptors # << >>

FindPatternBegin(image) ==
  /\ pc = "idle"
  /\ calls + trains < MaxOps
  /\ calls' = calls + 1
  /\ m_grayImg' = image
  /\ LET f == ExtractFeatures(image, m_queryKeypoints, m_queryDescriptors)
     IN  /\ m_queryKeypoints' = f.keypoints
         /\ m_queryDescriptors' = f.descriptors
  /\ leftoverReads' =
       IF DescriptorsLeftOver(image, m_queryDescriptors)
       THEN {"m_queryDescriptors"} ELSE {}
  /\ m_matches' = [i \in 1..Len(m_patterns) |-> << >>]
  /\ m_matches_homographyFound' = [i \in 1..Len(m_patterns) |-> FALSE]
  /\ m_matches_homography' = [i \in 1..Len(m_patterns) |-> EmptyMat]
  /\ job' = [i \in 1..Len(m_patterns) |-> NewJob]
  /\ pc' = "parallel"
  /\ ret' = "none"
  /\ maxFoundIdx' = -1
  /\ refinedMatches' = << >>
  /\ refinement' = NoRefinement
  /\ UNCHANGED << store, config, winner, info, patternsArg, trains >>

(***************************************************************************)
(* findPatternMatch(queryDescriptors, patternIdx): one job of the parallel *)
(* region.  The job matches and validates, writes its slot of m_matches    *)
(* and of m_matches_homography, and then sets its bit of the               *)
(* std::vector<bool> m_matches_homographyFound, which is a load of the     *)
(* word that holds the bits of all patterns and a store of that word with  *)
(* one bit changed.                                                        *)
(***************************************************************************)
FindPatternMatch(patternIdx) ==
  /\ pc = "parallel"
  /\ patternIdx + 1 \in DOMAIN job
  /\ job[patternIdx + 1].pc = "match"
  /\ \E gm \in GetMatches(m_matchers[patternIdx + 1], m_queryDescriptors, enableRatioTest) :
       \E r \in RefineMatchesWithHomography(m_queryKeypoints,
                  m_patterns[patternIdx + 1].keypoints,
                  homographyReprojectionThreshold,
                  gm.matches, EmptyMat) :
         IF gm.crash \/ r.crash
         THEN /\ pc' = "crashed"
              /\ UNCHANGED << m_matches, m_matches_homography, job >>
         ELSE /\ m_matches' = [m_matches EXCEPT ![patternIdx + 1] = r.matches]
              /\ m_matches_homography' =
                   [m_matches_homography EXCEPT ![patternIdx + 1] = r.homography]
              /\ job' = [job EXCEPT ![patternIdx + 1] =
                           [pc |-> "load", homographyFoundinPattern |-> r.ret,
                            word |-> << >>, matching |-> gm, validation |-> r]]
              /\ pc' = pc
  /\ UNCHANGED << store, config, query, m_matches_homographyFound, winner, info,
                  ret, maxFoundIdx, refinedMatches, refinement, patternsArg,
                  leftoverReads, calls, trains >>

\* Line 163, first half: the word of bits is read.
LoadFoundWord(patternIdx) ==
  /\ pc = "parallel"
  /\ patternIdx + 1 \in DOMAIN job
  /\ job[patternIdx + 1].pc = "load"
  /\ job' = [job EXCEPT ![patternIdx + 1].pc = "store",
                        ![patternIdx + 1].word = m_matches_homographyFound]
  /\ UNCHANGED << store, config, query, slots, winner, info, pc, ret,
                  maxFoundIdx, refinedMatches, refinement, patternsArg,
                  leftoverReads, calls, trains >>

\* The word a job writes back: the word it read, with its own bit set to
\* the outcome of its validation.
WordWithBit(word, current, patternIdx, bit) ==
  [word EXCEPT ![patternIdx + 1] = bit]

\* Line 163, second half: the word is written back.
StoreFoundWord(patternIdx) ==
  /\ pc = "parallel"
  /\ patternIdx + 1 \in DOMAIN job
  /\ job[patternIdx + 1].pc = "store"
  /\ m_matches_homographyFound' =
       WordWithBit(job[patternIdx + 1].word, m_matches_homographyFound, patternIdx,
                   job[patternIdx + 1].homographyFoundinPattern)
  /\ job' = [job EXCEPT ![patternIdx + 1].pc = "done"]
  /\ UNCHANGED << store, config, query, m_matches, m_matches_homography, winner,
                  info, pc, ret, maxFoundIdx, refinedMatches, refinement,
                  patternsArg, leftoverReads, calls, trains >>

(***************************************************************************)
(* findPattern after the parallel region (lines 184-259).                  *)
(***************************************************************************)
\* Lines 185-196: the scan for the pattern with the most matches among
\* those with a homography, from pattern i on.
RECURSIVE ProcessResultsLastWins(_, _, _, _)
ProcessResultsLastWins(found, matches, i, acc) ==
  IF i >= Len(found) THEN acc
  ELSE ProcessResultsLastWins(found, matches, i + 1,
         IF found[i + 1] /\ Len(matches[i + 1]) >= acc.maxFound
         THEN [homographyFound |-> TRUE, maxFound |-> Len(matches[i + 1]),
               maxFoundIdx |-> i]
         ELSE acc)

RECURSIVE ProcessResultsStopAtFailure(_, _, _, _)
ProcessResultsStopAtFailure(found, matches, i, acc) ==
  IF i >= Len(found) \/ ~found[i + 1] THEN acc
  ELSE ProcessResultsStopAtFailure(found, matches, i + 1,
         IF Len(matches[i + 1]) > acc.maxFound
         THEN [homographyFound |-> TRUE, maxFound |-> Len(matches[i + 1]),
               maxFoundIdx |-> i]
         ELSE acc)

RECURSIVE ProcessResults(_, _, _, _)
ProcessResults(found, matches, i, acc) ==
  IF i >= Len(found) THEN acc
  ELSE ProcessResults(found, matches, i + 1,
         IF found[i + 1] /\ Len(matches[i + 1]) > acc.maxFound
         THEN [homographyFound |-> TRUE, maxFound |-> Len(matches[i + 1]),
               maxFoundIdx |-> i]
         ELSE acc)

NothingFound == [homographyFound |-> FALSE, maxFound |-> 0, maxFoundIdx |-> -1]

AllJobsDone == \A i \in DOMAIN job : job[i].pc = "done"

\* Line 240 reads m_refinedHomography.  The call has written it unless
\* refineMatchesWithHomography returned at line 331; then it is what an
\* earlier call left, if any has written one.
HomographyLeftOver(matches, homography) ==
  Len(matches) < minNumberMatchesAllowed /\ ~IsEmptyMat(homography)

\* Lines 198-200: no pattern has a homography.
ReportNotFoundAsFound ==
  /\ pc' = "idle"
  /\ ret' = "true"
  /\ UNCHANGED << winner, info, maxFoundIdx, refinedMatches, refinement,
                  leftoverReads >>

ReportNotFound ==
  /\ pc' = "idle"
  /\ ret' = "false"
  /\ UNCHANGED << winner, info, maxFoundIdx, refinedMatches, refinement,
                  leftoverReads >>

\* Lines 202-254: what is written for the selected pattern and what is
\* returned.
RefineAndReport(sel) ==
  LET rough == m_matches_homography[sel.maxFoundIdx + 1]
      pattern == m_patterns[sel.maxFoundIdx + 1]
  IN
  /\ m_roughHomography' = rough
  /\ m_pattern' = pattern
  /\ maxFoundIdx' = sel.maxFoundIdx
  /\ IF enableHomographyRefinement
     THEN LET m_warpedImg == WarpPerspective(m_grayImg, rough, pattern.size)
              f == ExtractFeatures(m_warpedImg, << >>, << >>)
          IN  \E gm \in GetMatches(m_matchers[sel.maxFoundIdx + 1], f.descriptors,
                                   enableRatioTest) :
                \E r \in RefineMatchesWithHomography(f.keypoints, pattern.keypoints,
                           homographyReprojectionThreshold, gm.matches,
                           m_refinedHomography) :
                  IF gm.crash \/ r.crash
                  THEN /\ pc' = "crashed"
                       /\ info' = [info EXCEPT !.patternIdx = sel.maxFoundIdx]
                       /\ UNCHANGED << m_refinedHomography, refinedMatches,
                                       refinement, ret, leftoverReads >>
                  ELSE /\ m_refinedHomography' = r.homography
                       /\ refinedMatches' = r.matches
                       /\ refinement' =
                            [called |-> TRUE, matching |-> gm, validation |-> r]
                       /\ leftoverReads' =
                            IF HomographyLeftOver(gm.matches, m_refinedHomography)
                            THEN leftoverReads \cup {"m_refinedHomography"}
                            ELSE leftoverReads
                       /\ IF GemmThrows(rough, r.homography)
                          THEN /\ pc' = "threw"
                               /\ info' = [info EXCEPT !.patternIdx = sel.maxFoundIdx]
                               /\ ret' = ret
                          ELSE /\ pc' = "idle"
                               /\ info' =
                                    [patternIdx |-> sel.maxFoundIdx,
                                     homography |-> MatMul(rough, r.homography),
                                     points2d |->
                                       PerspectiveTransform(pattern.points2d,
                                         MatMul(rough, r.homography))]
                               /\ ret' = IF r.ret THEN "true" ELSE "false"
     ELSE /\ pc' = "idle"
          /\ info' = [patternIdx |-> sel.maxFoundIdx,
                      homography |-> rough,
                      points2d |-> PerspectiveTransform(pattern.points2d, rough)]
          /\ ret' = "true"
          /\ UNCHANGED << m_refinedHomography, refinedMatches, refinement,
                          leftoverReads >>

FindPatternFinish ==
  /\ pc = "parallel"
  /\ AllJobsDone
  /\ LET sel == ProcessResults(m_matches_homographyFound, m_matches, 0, NothingFound)
     IN  IF ~sel.homographyFound
         THEN ReportNotFound
         ELSE RefineAndReport(sel)
  /\ UNCHANGED << store, config, query, slots, job, patternsArg, calls, trains >>

Next ==
  \/ \E patterns \in TrainArgs : Train(patterns)
  \/ \E b \in BOOLEAN : SetHomographyRefinement(b)
  \/ \E image \in Frames : FindPatternBegin(image)
  \/ \E patternIdx \in 0 .. Len(m_patterns) - 1 : FindPatternMatch(patternIdx)
  \/ \E patternIdx \in 0 .. Len(m_patterns) - 1 : LoadFoundWord(patternIdx)
  \/ \E patternIdx \in 0 .. Len(m_patterns) - 1 : StoreFoundWord(patternIdx)
  \/ FindPatternFinish

Spec == Init /\ [][Next]_vars

(***************************************************************************)
(* Properties.                                                             *)
(***************************************************************************)
\* A findPattern call has returned and the instance was not touched since.
Returned == pc = "idle" /\ ret # "none"

\* The last findPattern call got past the scan of the results.
SelectionDone ==
  \/ Returned
  \/ pc \in {"crashed", "threw"} /\ AllJobsDone

\* The patterns whose slot says a homography was found.
WithHomography == {i \in 0 .. Len(m_patterns) - 1 : m_matches_homographyFound[i + 1]}

Count(i) == Len(m_matches[i + 1])

\* C1: once the jobs of a findPattern call are done and their results
\* scanned, the selected pattern is the one of lowest index among the
\* patterns with a homography whose match count is the largest; none is
\* selected when no pattern has a homography.
SelectedIsFirstMaximal ==
  SelectionDone =>
    IF WithHomography = {} THEN maxFoundIdx = -1
    ELSE /\ maxFoundIdx \in WithHomography
         /\ \A j \in WithHomography :
              /\ Count(j) <= Count(maxFoundIdx)
              /\ Count(j) = Count(maxFoundIdx) => maxFoundIdx <= j

\* Two patterns have a homography and the same match count, and the call
\* returned with the first of them selected.
TieSelectsFirst ==
  /\ Returned
  /\ \E i, j \in WithHomography :
       i < j /\ Count(i) = Count(j) /\ maxFoundIdx = i

\* A findPattern call is in progress or has ended, returning or not.
InCall == pc # "idle" \/ ret # "none"

\* C2: a findPattern call whose frame yields no keypoint matches nothing,
\* raises no error and does not return true, whatever calls came before.
NoKeypointsFindsNothing ==
  (InCall /\ m_queryKeypoints = << >>) =>
    /\ pc \notin {"crashed", "threw"}
    /\ ret # "true"
    /\ \A i \in DOMAIN m_matches : m_matches[i] = << >>

\* The refinement stage of the last call ran to its estimation.
RefinementRan ==
  /\ SelectionDone
  /\ pc # "crashed"
  /\ maxFoundIdx # -1
  /\ enableHomographyRefinement

UntrainedNeverReturns == ~(trains = 0 /\ Returned)

\* C4, amended: findPattern on an instance that was never trained runs no
\* job, raises no error, leaves info as it was and returns false.
UntrainedReturnsFalse ==
  (trains = 0 /\ InCall) =>
    /\ job = << >>
    /\ pc \notin {"crashed", "threw"}
    /\ ret # "true"
    /\ info = NoInfo

\* A call on an instance that was never trained has returned false.
UntrainedReturnedFalse == trains = 0 /\ calls > 0 /\ Returned /\ ret = "false"

\* C5: however the jobs of a call are interleaved, each slot read after the
\* join holds what its job computed, as it does when the jobs run one after
\* the other.
SlotsAsComputed ==
  (pc = "parallel" /\ AllJobsDone) =>
    \A i \in DOMAIN job :
      m_matches_homographyFound[i] = job[i].homographyFoundinPattern

\* C6: no findPattern call reads scratch state that an earlier call wrote.
NoLeftoverRead == leftoverReads = {}

\* C7: after any train calls the store holds the patterns of the last call
\* and one matcher per pattern, whose train descriptors are those of its
\* pattern and nothing else.
StoreIsLastTrained ==
  /\ m_patterns = patternsArg
  /\ Len(m_matchers) = Len(m_patterns)
  /\ \A i \in 1..Len(m_patterns) :
       /\ Len(m_matchers[i]) = 1
       /\ m_matchers[i][1] = patternsArg[i].descriptors

\* train was called a second time, on an instance that held matchers.
Retrained == trains >= 2 /\ m_matchers # << >>

\* C8: a selected pattern has at least 25 validated matches and at least
\* one keypoint.
WinnerHasMatches ==
  (SelectionDone /\ maxFoundIdx # -1) =>
    /\ Count(maxFoundIdx) >= 25
    /\ m_patterns[maxFoundIdx + 1].keypoints # << >>

RowTimesColumn(A, B, i, j) == A[i][1] * B[1][j] + A[i][2] * B[2][j] + A[i][3] * B[3][j]

\* C10: when findPattern returns true, info names the selected pattern,
\* info.homography is rough x refinement with refinement enabled and the
\* rough homography without, and info.points2d are the selected pattern's
\* corners through info.homography; without refinement the call returns true
\* whenever a pattern was selected.
InfoReportsWinner ==
  /\ (Returned /\ ret = "true") =>
       /\ maxFoundIdx # -1
       /\ info.patternIdx = maxFoundIdx
       /\ m_roughHomography = m_matches_homography[maxFoundIdx + 1]
       /\ IF enableHomographyRefinement
          THEN \A i, j \in 1..3 :
                 info.homography[i][j] =
                   RowTimesColumn(m_roughHomography, m_refinedHomography, i, j)
          ELSE info.homography = m_roughHomography
       /\ Len(info.points2d) = 4
       /\ \A k \in 1..4 :
            info.points2d[k] =
              TransformPoint(info.homography, m_patterns[maxFoundIdx + 1].points2d[k])
  /\ (Returned /\ ~enableHomographyRefinement /\ maxFoundIdx # -1) => ret = "true"

\* A call returned true with a rough homography and a refinement that do
\* not commute.
ComposedStretchAndShift ==
  /\ Returned
  /\ ret = "true"
  /\ enableHomographyRefinement
  /\ m_roughHomography = ScaleX(2)
  /\ m_refinedHomography = Translate(1, 0)

\* C11: during the parallel region a step of one job changes no slot of
\* another job in m_matches, m_matches_homography or
\* m_matches_homographyFound.
JobsWriteOwnSlots ==
  [][pc = "parallel" =>
       \A i \in DOMAIN job :
         (\/ m_matches'[i] # m_matches[i]
          \/ m_matches_homography'[i] # m_matches_homography[i]
          \/ m_matches_homographyFound'[i] # m_matches_homographyFound[i])
         => job'[i].pc # job[i].pc]_vars

\* The calls of getMatches and refineMatchesWithHomography made so far by
\* the last findPattern call: the matching, the match list handed to the
\* validation and the outcome of the validation.
StageCalls ==
  {[matching |-> job[i].matching, in |-> job[i].matching.matches,
    out |-> job[i].validation] : i \in {j \in DOMAIN job : job[j].pc # "match"}}
  \cup (IF refinement.called
        THEN {[matching |-> refinement.matching,
               in |-> refinement.matching.matches,
               out |-> refinement.validation]}
        ELSE {})

\* C12: refineMatchesWithHomography given fewer than 25 matches returns
\* false without running the estimator and leaves the match list as it was
\* passed in; a job so served writes that list to its slot.
EarlyReturnLeavesMatches ==
  /\ \A c \in StageCalls :
       Len(c.in) < 25 =>
         /\ ~c.out.crash
         /\ ~c.out.ret
         /\ ~c.out.ran
         /\ c.out.matches = c.in
  /\ \A i \in DOMAIN job :
       (job[i].pc # "match" /\ Len(job[i].matching.matches) < 25) =>
         /\ m_matches[i] = job[i].matching.matches
         /\ ~job[i].homographyFoundinPattern

\* The refinement stage handed 24 matches to refineMatchesWithHomography
\* and has them still.
RefinementGiven24 ==
  /\ refinement.called
  /\ Len(refinement.matching.matches) = 24
  /\ refinedMatches = refinement.matching.matches

\* The j-th smallest element of a set of numbers.
NthOf(S, j) == CHOOSE k \in S : Cardinality({k2 \in S : k2 <= k}) = j

\* C13: refineMatchesWithHomography given 25 matches or more replaces the
\* list by the matches whose mask entry is set, in their order: as many as
\* there are set entries, the j-th of them the match at the j-th set entry,
\* and never more than were given.
InliersAreMaskedSublist ==
  \A c \in StageCalls :
    Len(c.in) >= 25 =>
      LET mask == c.out.estimate.mask
          Kept == {k \in 1..Len(c.in) : mask[k]}
      IN  /\ c.out.ran
          /\ Len(mask) = Len(c.in)
          /\ Len(c.out.matches) = Cardinality(Kept)
          /\ Len(c.out.matches) <= Len(c.in)
          /\ \A j \in 1..Len(c.out.matches) :
               c.out.matches[j] = c.in[NthOf(Kept, j)]

\* A validation kept some of its matches and dropped one that was not the
\* last.
DroppedSomeKeptSome ==
  \E c \in StageCalls :
    /\ Len(c.in) >= 25
    /\ c.out.matches # << >>
    /\ \E k \in 1..Len(c.in) - 1 : ~c.out.estimate.mask[k] /\ c.out.estimate.mask[k + 1]

\* C14: refineMatchesWithHomography returns true exactly when it was given
\* 25 matches or more and kept more than 25 of them; the estimator runs
\* exactly when 25 or more were given, so a call given exactly 25 runs it
\* and returns false.
SuccessIffMoreThan25Kept ==
  \A c \in StageCalls :
    /\ c.out.ret <=> (Len(c.in) >= 25 /\ Len(c.out.matches) > 25)
    /\ c.out.ran <=> Len(c.in) >= 25
    /\ Len(c.in) = 25 => c.out.ran /\ ~c.out.ret

\* A validation given exactly 25 matches ran the estimator, kept them all
\* and returned false.
Given25RanAndFailed ==
  \E c \in StageCalls :
    /\ Len(c.in) = 25
    /\ c.out.ran
    /\ Len(c.out.matches) = 25
    /\ ~c.out.ret

ComposedHomographiesAssigned ==
  RefinementRan =>
    /\ pc # "threw"
    /\ ~IsEmptyMat(m_refinedHomography)
    /\ "m_refinedHomography" \notin leftoverReads

\* a is b with some elements left out.
RECURSIVE IsSubSeq(_, _)
IsSubSeq(a, b) ==
  IF a = << >> THEN TRUE
  ELSE IF b = << >> THEN FALSE
  ELSE IF Head(a) = Head(b) THEN IsSubSeq(Tail(a), Tail(b))
  ELSE IsSubSeq(a, Tail(b))

\* C17: the match list a job produces in ratio-test mode is a sub-list of
\* the one plain matching produces for the same query descriptors and the
\* same matcher.
RatioMatchesAmongPlain ==
  enableRatioTest =>
    \A i \in DOMAIN job :
      job[i].pc # "match" =>
        IsSubSeq(job[i].matching.matches, Match(m_matchers[i], m_queryDescriptors))

\* C18: every distance ratio computed from a best and a second-best
\* neighbour that the matcher returned is finite.
RatioAlwaysFinite ==
  \A c \in StageCalls : ~c.matching.pastEnd => ~c.matching.nonFinite

\* C19: no matching reads a neighbour that the matcher did not return.
NoNeighbourReadPastEnd ==
  \A c \in StageCalls : ~c.matching.pastEnd

\* C20: the step that ends the parallel region and leaves findPattern,
\* returning or raising, leaves info as it was when no pattern was selected,
\* and otherwise writes the selected index, the composed homography and the
\* corners through it.
InfoWrittenIffWinner ==
  [][(pc = "parallel" /\ pc' \in {"idle", "threw"}) =>
       IF maxFoundIdx' = -1 THEN info' = info
       ELSE /\ info'.patternIdx = maxFoundIdx'
            /\ pc' = "idle"
            /\ info'.homography =
                 (IF enableHomographyRefinement
                  THEN MatMul(m_roughHomography', m_refinedHomography')
                  ELSE m_roughHomography')
            /\ info'.points2d =
                 PerspectiveTransform(m_patterns[maxFoundIdx' + 1].points2d,
                                      info'.homography)]_vars

=============================================================================
